---- MODULE Spec2Model ----
(***************************************************************************)
(* Model of the clicker-game backend (src/backend/server.py): the player   *)
(* store, the lazy catch-up routines (energy regeneration, passive income) *)
(* and the request handlers, each handler taken as one serialized request. *)
(*                                                                         *)
(* Time is counted in whole seconds.  All the clock reads of one request   *)
(* (datetime.utcnow() in the catch-up routines and in the handler) return  *)
(* the same second, the value of `clock' when the request is served.       *)
(* A second behaviour (SpecSteps) takes the handlers one store call at a   *)
(* time, for requests in flight together and store calls that fail; there  *)
(* each clock read returns the value of `clock' at its own step.  A third   *)
(* (SpecCalc) applies the formulas of the game to inputs of their own.     *)
(*                                                                         *)
(* Points are kept in tenths of a point (PointUnit tenths = 1 point),      *)
(* because calculate_points_per_click adds cost * 0.1 for every purchased  *)
(* upgrade.  A point amount is a two-limb number [hi, lo] standing for     *)
(* hi * BigBase + lo, so that the advancement costs of tiers 3 and 4       *)
(* (5 * 10^8 and 5 * 10^10 points) are representable.                      *)
(***************************************************************************)
EXTENDS Integers, Sequences, FiniteSets, TLC

VARIABLES db, clock, resp, regen, income, nreq, procs, calc

vars == <<db, clock, resp, regen, income, nreq, procs, calc>>

\* ------------------------------------------------------------------------
\* Bounds of the exploration
\* ------------------------------------------------------------------------
MaxRequests == 3

MaxUpgrade == 2

\* the upgrade levels the formulas are applied to in SpecCalc: 0..MaxLevel
MaxLevel == 9

\* the instants at which a request can arrive, in seconds
Instants == {0, 15, 20, 75, 125}

Players == {"p1"}

\* ------------------------------------------------------------------------
\* Numbers
\* ------------------------------------------------------------------------
PointUnit == 10

BigBase == 1000000000

\* a missing timestamp field
None == -1

Min(a, b) == IF a <= b THEN a ELSE b

\* Python's int(a / b) for b > 0: truncation toward zero
TruncDiv(a, b) == IF a >= 0 THEN a \div b ELSE -((-a) \div b)

\* hi * BigBase + lo with 0 <= lo < BigBase
Norm(hi, lo) == [hi |-> hi + (lo \div BigBase), lo |-> lo % BigBase]

Big(n) == Norm(0, n)

\* n whole points, n * 10^6 whole points
Pts(n) == Big(n * PointUnit)

MegaPerLimb == BigBase \div (1000000 * PointUnit)

MegaPts(n) == [hi |-> n \div MegaPerLimb, lo |-> (n % MegaPerLimb) * 1000000 * PointUnit]

\* m * 10^k tenths of a point
Scaled(m, k) ==
  IF k >= 9 THEN [hi |-> m * (10 ^ (k - 9)), lo |-> 0]
  ELSE [hi |-> m \div (10 ^ (9 - k)), lo |-> (m % (10 ^ (9 - k))) * (10 ^ k)]

BigAdd(a, n) == Norm(a.hi, a.lo + n)

BigSub(a, n) == Norm(a.hi, a.lo - n)

BigLess(a, b) == a.hi < b.hi \/ (a.hi = b.hi /\ a.lo < b.lo)

BigGeq(a, b) == ~BigLess(a, b)

Zero == Big(0)

\* the advancement_cost None of the last tier
NoCost == [hi |-> -1, lo |-> 0]

\* ------------------------------------------------------------------------
\* Static configuration and formulas
\* ------------------------------------------------------------------------
CHARACTER_LEVELS ==
  <<[name |-> "Junior", multiplier |-> 1, max_energy |-> 100, advancement_cost |-> Pts(5000)],
    [name |-> "Deishi", multiplier |-> 2, max_energy |-> 150, advancement_cost |-> MegaPts(5)],
    [name |-> "Shugo",  multiplier |-> 3, max_energy |-> 200, advancement_cost |-> MegaPts(500)],
    [name |-> "Seishi", multiplier |-> 5, max_energy |-> 250, advancement_cost |-> MegaPts(50000)],
    [name |-> "Shihan", multiplier |-> 8, max_energy |-> 300, advancement_cost |-> NoCost]>>

\* get_upgrade_cost doubling the cost with every level
get_upgrade_cost_doubling(level) ==
  IF level = 0 THEN 100 ELSE 100 * (2 ^ level)

\* int(100 * 2.5 ** level); 2.5 ** level = 5^level / 2^level is exact in a double for the levels used
get_upgrade_cost(level) ==
  IF level = 0 THEN 100 ELSE (100 * (5 ^ level)) \div (2 ^ level)

RECURSIVE SumCosts(_)
SumCosts(n) == IF n = 0 THEN 0 ELSE SumCosts(n - 1) + (get_upgrade_cost(n - 1) * PointUnit) \div 10

\* calculate_points_per_click with range(upgrade_level + 1)
calculate_points_per_click_onemore(upgrade_level) ==
  IF upgrade_level = 0 THEN PointUnit ELSE SumCosts(upgrade_level + 1)

\* in tenths of a point: 1 point at level 0, else the sum of cost * 0.1 over the purchased upgrades
calculate_points_per_click(upgrade_level) ==
  IF upgrade_level = 0 THEN PointUnit ELSE SumCosts(upgrade_level)

RECURSIVE bit_length(_)
bit_length(n) == IF n = 0 THEN 0 ELSE 1 + bit_length(n \div 2)

\* whether the double nearest to (2 * q + 1) / 20 lies above it.  (2 * q + 1) / 5 = i + x / 5,
\* the binary expansion of x / 5 has period 4, and a double keeps 53 bits of it
double_above_tie(q) ==
  LET i == (2 * q + 1) \div 5
      x == (2 * q + 1) % 5
      k == 53 - bit_length(i)
  IN ((2 ^ (k % 4)) * x) % 5 >= 3

\* f"{num / 10 ** e:.1f}" in tenths of the unit 10^e, for num in tenths of a point (the
\* divisor of the tenths is again 10^e): the quotient rounded to the nearest tenth; at a
\* decimal tie the double num / 10 ** e is the tie itself when it is a multiple of 1/4
\* (then round half to even), else the side of the tie the double lies on decides
one_decimal(num, e) ==
  LET d == 10 ^ Min(e, 9)
      q == IF e <= 9 THEN num.hi * (BigBase \div d) + num.lo \div d ELSE num.hi \div (10 ^ (e - 9))
      top == IF e <= 9 THEN 0 ELSE num.hi % (10 ^ (e - 9))
      half == IF e <= 9 THEN 0 ELSE (10 ^ (e - 9)) \div 2
      low == IF e <= 9 THEN num.lo % d ELSE num.lo
      above == IF e <= 9 THEN 2 * low > d ELSE top > half \/ (top = half /\ low > 0)
      tie == IF e <= 9 THEN 2 * low = d ELSE top = half /\ low = 0
      up == \/ above
            \/ tie /\ (IF (2 * q + 1) % 5 = 0 THEN q % 2 = 1 ELSE double_above_tie(q))
  IN IF up THEN q + 1 ELSE q

\* a rendered number: the digits before the point, the digit after it (None when the
\* rendering has no point) and the suffix
Rendered(tenths, suffix) == [whole |-> tenths \div 10, frac |-> tenths % 10, suffix |-> suffix]

\* format_number with num <= 1000 as its first test
format_number_inclusive(num) ==
  IF ~BigLess(Pts(1000), num) THEN [whole |-> TruncDiv(num.lo, PointUnit), frac |-> None, suffix |-> ""]
  ELSE IF BigLess(num, MegaPts(1)) THEN Rendered(one_decimal(num, 3), "K")
  ELSE IF BigLess(num, MegaPts(1000)) THEN Rendered(one_decimal(num, 6), "M")
  ELSE IF BigLess(num, MegaPts(1000000)) THEN Rendered(one_decimal(num, 9), "B")
  ELSE Rendered(one_decimal(num, 12), "T")

\* format_number of a number of points >= 0 given in tenths of a point
format_number(num) ==
  IF BigLess(num, Pts(1000)) THEN [whole |-> TruncDiv(num.lo, PointUnit), frac |-> None, suffix |-> ""]
  ELSE IF BigLess(num, MegaPts(1)) THEN Rendered(one_decimal(num, 3), "K")
  ELSE IF BigLess(num, MegaPts(1000)) THEN Rendered(one_decimal(num, 6), "M")
  ELSE IF BigLess(num, MegaPts(1000000)) THEN Rendered(one_decimal(num, 9), "B")
  ELSE Rendered(one_decimal(num, 12), "T")

\* ------------------------------------------------------------------------
\* The store: a function from the player ids that have a document to it.
\* A document created by get_or_create_player has no last_save field; the
\* missing field is the value None.
\* ------------------------------------------------------------------------
SetFields(doc, set) == [f \in DOMAIN doc |-> IF f \in DOMAIN set THEN set[f] ELSE doc[f]]

\* db.players.update_one({"player_id": pid}, {"$set": set}) without upsert
UpdateOne(d, pid, set) ==
  IF pid \in DOMAIN d THEN [d EXCEPT ![pid] = SetFields(@, set)] ELSE d

\* get_or_create_player dating the anchors of a new record at instant 0 instead of now
get_or_create_player_epoch(d, pid, now) ==
  IF pid \in DOMAIN d
  THEN [db |-> d, player |-> d[pid]]
  ELSE LET player == [player_id |-> pid, points |-> Zero, energy |-> 100, character_level |-> 1,
                      upgrade_level |-> 0, last_energy_update |-> 0, last_passive_income |-> 0,
                      last_save |-> None]
       IN [db |-> (pid :> player) @@ d, player |-> player]

get_or_create_player(d, pid, now) ==
  IF pid \in DOMAIN d
  THEN [db |-> d, player |-> d[pid]]
  ELSE LET player == [player_id |-> pid,
                      points |-> Zero,
                      energy |-> 100,
                      character_level |-> 1,
                      upgrade_level |-> 0,
                      last_energy_update |-> now,
                      last_passive_income |-> now,
                      last_save |-> None]
       IN [db |-> (pid :> player) @@ d, player |-> player]

\* update_energy without the cap at max_energy
update_energy_uncapped(d, player, now) ==
  LET energy_to_add == TruncDiv(now - player.last_energy_update, 10)
      set == [energy |-> player.energy + energy_to_add, last_energy_update |-> now]
  IN IF energy_to_add > 0
     THEN [db |-> UpdateOne(d, player.player_id, set), player |-> SetFields(player, set)]
     ELSE [db |-> d, player |-> player]

\* update_energy granting one energy per 5 seconds
update_energy_fast(d, player, now) ==
  LET energy_to_add == TruncDiv(now - player.last_energy_update, 5)
      max_energy == CHARACTER_LEVELS[player.character_level].max_energy
      set == [energy |-> Min(player.energy + energy_to_add, max_energy), last_energy_update |-> now]
  IN IF energy_to_add > 0
     THEN [db |-> UpdateOne(d, player.player_id, set), player |-> SetFields(player, set)]
     ELSE [db |-> d, player |-> player]

\* update_energy that grants the energy and leaves the anchor where it was
update_energy_keepanchor(d, player, now) ==
  LET energy_to_add == TruncDiv(now - player.last_energy_update, 10)
      max_energy == CHARACTER_LEVELS[player.character_level].max_energy
      set == [energy |-> Min(player.energy + energy_to_add, max_energy)]
  IN IF energy_to_add > 0
     THEN [db |-> UpdateOne(d, player.player_id, set), player |-> SetFields(player, set)]
     ELSE [db |-> d, player |-> player]

\* update_energy that writes nothing for a player whose energy is at the cap
update_energy_idleatcap(d, player, now) ==
  LET energy_to_add == TruncDiv(now - player.last_energy_update, 10)
      max_energy == CHARACTER_LEVELS[player.character_level].max_energy
      set == [energy |-> Min(player.energy + energy_to_add, max_energy), last_energy_update |-> now]
  IN IF energy_to_add > 0 /\ player.energy < max_energy
     THEN [db |-> UpdateOne(d, player.player_id, set), player |-> SetFields(player, set)]
     ELSE [db |-> d, player |-> player]

\* update_energy that applies any nonzero number of quanta, a negative one included
update_energy_backwards(d, player, now) ==
  LET energy_to_add == TruncDiv(now - player.last_energy_update, 10)
      max_energy == CHARACTER_LEVELS[player.character_level].max_energy
      set == [energy |-> Min(player.energy + energy_to_add, max_energy), last_energy_update |-> now]
  IN IF energy_to_add # 0
     THEN [db |-> UpdateOne(d, player.player_id, set), player |-> SetFields(player, set)]
     ELSE [db |-> d, player |-> player]

update_energy(d, player, now) ==
  LET last_update == player.last_energy_update
      time_diff == now - last_update
      energy_to_add == TruncDiv(time_diff, 10)
  IN IF energy_to_add > 0
     THEN LET max_energy == CHARACTER_LEVELS[player.character_level].max_energy
              new_energy == Min(player.energy + energy_to_add, max_energy)
              set == [energy |-> new_energy, last_energy_update |-> now]
          IN [db |-> UpdateOne(d, player.player_id, set), player |-> SetFields(player, set)]
     ELSE [db |-> d, player |-> player]

\* update_passive_income that leaves the anchor where it was
update_passive_income_noanchor(d, player, now) ==
  LET passive_clicks == TruncDiv(now - player.last_passive_income, 60)
      passive_points == passive_clicks * calculate_points_per_click(player.upgrade_level)
                          * CHARACTER_LEVELS[player.character_level].multiplier
      set == [points |-> BigAdd(player.points, passive_points)]
  IN IF passive_clicks > 0
     THEN [db |-> UpdateOne(d, player.player_id, set), player |-> SetFields(player, set)]
     ELSE [db |-> d, player |-> player]

\* update_passive_income that pays only a player whose energy is below the cap
update_passive_income_belowcap(d, player, now) ==
  LET passive_clicks == TruncDiv(now - player.last_passive_income, 60)
      character_config == CHARACTER_LEVELS[player.character_level]
      passive_points == passive_clicks * calculate_points_per_click(player.upgrade_level)
                          * character_config.multiplier
      set == [points |-> BigAdd(player.points, passive_points), last_passive_income |-> now]
  IN IF passive_clicks > 0 /\ player.energy < character_config.max_energy
     THEN [db |-> UpdateOne(d, player.player_id, set), player |-> SetFields(player, set)]
     ELSE [db |-> d, player |-> player]

update_passive_income(d, player, now) ==
  LET last_passive == player.last_passive_income
      passive_clicks == TruncDiv(now - last_passive, 60)
  IN IF passive_clicks > 0
     THEN LET character_config == CHARACTER_LEVELS[player.character_level]
              base_points == calculate_points_per_click(player.upgrade_level)
              passive_points == passive_clicks * base_points * character_config.multiplier
              new_points == BigAdd(player.points, passive_points)
              set == [points |-> new_points, last_passive_income |-> now]
          IN [db |-> UpdateOne(d, player.player_id, set), player |-> SetFields(player, set)]
     ELSE [db |-> d, player |-> player]

\* CatchUp without the call of update_energy
CatchUp_noenergy(d, pid, now) ==
  LET c0 == get_or_create_player(d, pid, now)
  IN update_passive_income(c0.db, c0.player, now)

\* the three calls that open every handler but import
CatchUp(d, pid, now) ==
  LET c0 == get_or_create_player(d, pid, now)
      c1 == update_energy(c0.db, c0.player, now)
  IN update_passive_income(c1.db, c1.player, now)

\* ------------------------------------------------------------------------
\* Responses and the bookkeeping of the interval properties
\* ------------------------------------------------------------------------
\* the last request served: its arguments, the instant it was served at, and the answer
Response(op, pid, args, status, detail, body) ==
  [op |-> op, player_id |-> pid, args |-> args, at |-> clock,
   status |-> status, detail |-> detail, body |-> body]

NoBody == [none |-> TRUE]

NoSnap == [set |-> FALSE, v |-> Zero, e |-> 0, t |-> 0]

\* the energy and its anchor when the record last left the hands of create, click, advance or import
EnergySnap(doc) == [set |-> TRUE, v |-> Zero, e |-> doc.energy, t |-> doc.last_energy_update]

\* the points and their anchor when the record last left the hands of create, click, purchase, advance or import
PointsSnap(doc) == [set |-> TRUE, v |-> doc.points, e |-> 0, t |-> doc.last_passive_income]

\* what a request leaves in the snapshots: taken anew when the request created the record
\* or (newEnergy, newPoints) acted on the energy or on the points, kept otherwise
Snapshots(pid, d2, newEnergy, newPoints) ==
  /\ regen' = IF newEnergy \/ pid \notin DOMAIN db
              THEN [regen EXCEPT ![pid] = EnergySnap(d2[pid])] ELSE regen
  /\ income' = IF newPoints \/ pid \notin DOMAIN db
               THEN [income EXCEPT ![pid] = PointsSnap(d2[pid])] ELSE income

\* a request is served: one more of the MaxRequests requests of a run
Served == nreq' = nreq + 1 /\ UNCHANGED <<clock, procs, calc>>

\* the formula last applied in SpecCalc; none is in Spec
NoCalc == [fn |-> "none", arg |-> NoBody, out |-> NoBody]

\* the requests in flight of SpecSteps; none is ever in flight in Spec
Procs == {"r1", "r2"}

NoPlayer ==
  [player_id |-> "", points |-> Zero, energy |-> 0, character_level |-> 1, upgrade_level |-> 0,
   last_energy_update |-> 0, last_passive_income |-> 0, last_save |-> None]

\* a request slot before its request arrives
IdleProc ==
  [pc |-> "idle", op |-> "none", player_id |-> "", args |-> NoBody, player |-> NoPlayer,
   t0 |-> 0, db0 |-> << >>, status |-> 0, detail |-> ""]

Init ==
  /\ db = << >>
  /\ clock = 0
  /\ resp = [op |-> "none", player_id |-> "", args |-> NoBody, at |-> 0,
             status |-> 0, detail |-> "", body |-> NoBody]
  /\ regen = [p \in Players |-> NoSnap]
  /\ income = [p \in Players |-> NoSnap]
  /\ nreq = 0
  /\ procs = [r \in Procs |-> IdleProc]
  /\ calc = NoCalc

\* wall-clock time passes between two requests
Tick(t) ==
  /\ t > clock
  /\ clock' = t
  /\ UNCHANGED <<db, resp, regen, income, nreq, procs, calc>>

\* ------------------------------------------------------------------------
\* The request handlers.  For each action, X_check is the detail of the 400
\* answer ("" when the request passes) and X_set the fields of its $set.
\* ------------------------------------------------------------------------
\* the answer of get_player for the caught-up record
player_view(player) ==
  LET character_config == CHARACTER_LEVELS[player.character_level]
      next_upgrade_cost == get_upgrade_cost(player.upgrade_level)
      points_per_click == calculate_points_per_click(player.upgrade_level)
      last_save == IF player.last_save = None THEN player.last_energy_update ELSE player.last_save
      can_advance == /\ player.character_level < 5
                     /\ BigGeq(player.points, character_config.advancement_cost)
  IN [points |-> player.points,
      points_formatted |-> format_number(player.points),
      energy |-> player.energy,
      max_energy |-> character_config.max_energy,
      character_level |-> player.character_level,
      upgrade_level |-> player.upgrade_level,
      points_per_click |-> points_per_click * character_config.multiplier,
      next_upgrade_cost |-> next_upgrade_cost,
      next_upgrade_cost_formatted |-> format_number(Pts(next_upgrade_cost)),
      can_advance |-> can_advance,
      energy_regen_seconds |-> (character_config.max_energy - player.energy) * 10,
      last_save |-> last_save]

get_player(pid) ==
  LET c == CatchUp(db, pid, clock)
  IN /\ nreq < MaxRequests
     /\ Served
     /\ db' = c.db
     /\ resp' = Response("get_player", pid, NoBody, 200, "ok", player_view(c.player))
     /\ Snapshots(pid, c.db, FALSE, FALSE)

\* click_check with the threshold off by one
click_check_low(player) ==
  IF player.energy < 1 THEN "Not enough energy" ELSE ""

click_check(player) ==
  IF player.energy < 2 THEN "Not enough energy" ELSE ""

\* click_set charging one energy instead of two
click_set_cheap(player, now) ==
  LET points_earned == calculate_points_per_click(player.upgrade_level)
                         * CHARACTER_LEVELS[player.character_level].multiplier
  IN [points |-> BigAdd(player.points, points_earned), energy |-> player.energy - 1, last_save |-> now]

click_set(player, now) ==
  LET character_config == CHARACTER_LEVELS[player.character_level]
      base_points == calculate_points_per_click(player.upgrade_level)
      points_earned == base_points * character_config.multiplier
      new_points == BigAdd(player.points, points_earned)
      new_energy == player.energy - 2
  IN [points |-> new_points, energy |-> new_energy, last_save |-> now]

click(pid) ==
  LET c == CatchUp(db, pid, clock)
      player == c.player
      detail == click_check(player)
      set == click_set(player, clock)
      d2 == UpdateOne(c.db, pid, set)
  IN /\ nreq < MaxRequests
     /\ Served
     /\ IF detail # ""
        THEN /\ db' = c.db
             /\ resp' = Response("click", pid, NoBody, 400, detail, NoBody)
             /\ Snapshots(pid, c.db, FALSE, FALSE)
        ELSE /\ db' = d2
             /\ resp' = Response("click", pid, NoBody, 200, "ok",
                          [points_earned |-> calculate_points_per_click(player.upgrade_level)
                                               * CHARACTER_LEVELS[player.character_level].multiplier,
                           new_points |-> set.points,
                           new_energy |-> set.energy])
             /\ Snapshots(pid, d2, TRUE, TRUE)

\* purchase_check without the points check
purchase_check_nofunds(player, upgrade_level) ==
  IF upgrade_level # player.upgrade_level THEN "Invalid upgrade level" ELSE ""

\* purchase_check refusing a player whose points equal the cost
purchase_check_strict(player, upgrade_level) ==
  IF upgrade_level # player.upgrade_level THEN "Invalid upgrade level"
  ELSE IF ~BigLess(Pts(get_upgrade_cost(upgrade_level)), player.points) THEN "Not enough points"
  ELSE ""

\* purchase_check looking at the points before the upgrade level
purchase_check_swapped(player, upgrade_level) ==
  IF BigLess(player.points, Pts(get_upgrade_cost(upgrade_level))) THEN "Not enough points"
  ELSE IF upgrade_level # player.upgrade_level THEN "Invalid upgrade level"
  ELSE ""

purchase_check(player, upgrade_level) ==
  IF upgrade_level # player.upgrade_level THEN "Invalid upgrade level"
  ELSE IF BigLess(player.points, Pts(get_upgrade_cost(upgrade_level))) THEN "Not enough points"
  ELSE ""

purchase_set(player, upgrade_level, now) ==
  LET cost == get_upgrade_cost(upgrade_level)
      new_points == BigSub(player.points, cost * PointUnit)
      new_upgrade_level == player.upgrade_level + 1
  IN [points |-> new_points, upgrade_level |-> new_upgrade_level, last_save |-> now]

purchase_upgrade(pid, upgrade_level) ==
  LET c == CatchUp(db, pid, clock)
      player == c.player
      detail == purchase_check(player, upgrade_level)
      set == purchase_set(player, upgrade_level, clock)
      d2 == UpdateOne(c.db, pid, set)
      args == [upgrade_level |-> upgrade_level]
  IN /\ nreq < MaxRequests
     /\ Served
     /\ IF detail # ""
        THEN /\ db' = c.db
             /\ resp' = Response("purchase_upgrade", pid, args, 400, detail, NoBody)
             /\ Snapshots(pid, c.db, FALSE, FALSE)
        ELSE /\ db' = d2
             /\ resp' = Response("purchase_upgrade", pid, args, 200, "ok",
                          [new_points |-> set.points,
                           new_upgrade_level |-> set.upgrade_level,
                           new_points_per_click |-> calculate_points_per_click(set.upgrade_level)
                                                     * CHARACTER_LEVELS[player.character_level].multiplier])
             /\ Snapshots(pid, d2, FALSE, TRUE)

\* advance_check refusing a player whose points equal the advancement cost
advance_check_strict(player) ==
  IF player.character_level >= 5 THEN "Already at maximum level"
  ELSE LET advancement_cost == CHARACTER_LEVELS[player.character_level].advancement_cost
       IN IF advancement_cost = NoCost \/ advancement_cost = Zero \/ ~BigLess(advancement_cost, player.points)
          THEN "Not enough points for advancement"
          ELSE ""

advance_check(player) ==
  IF player.character_level >= 5 THEN "Already at maximum level"
  ELSE LET advancement_cost == CHARACTER_LEVELS[player.character_level].advancement_cost
       IN IF advancement_cost = NoCost \/ advancement_cost = Zero \/ BigLess(player.points, advancement_cost)
          THEN "Not enough points for advancement"
          ELSE ""

\* advance_set that does not refill the energy
advance_set_norefill(player, now) ==
  [character_level |-> player.character_level + 1,
   points |-> Zero,
   upgrade_level |-> 0,
   energy |-> player.energy,
   last_energy_update |-> now,
   last_passive_income |-> now,
   last_save |-> now]

advance_set(player, now) ==
  LET new_level == player.character_level + 1
      new_character_config == CHARACTER_LEVELS[new_level]
  IN [character_level |-> new_level,
      points |-> Zero,
      upgrade_level |-> 0,
      energy |-> new_character_config.max_energy,
      last_energy_update |-> now,
      last_passive_income |-> now,
      last_save |-> now]

advance_character(pid) ==
  LET c == CatchUp(db, pid, clock)
      player == c.player
      detail == advance_check(player)
      set == advance_set(player, clock)
      d2 == UpdateOne(c.db, pid, set)
  IN /\ nreq < MaxRequests
     /\ Served
     /\ IF detail # ""
        THEN /\ db' = c.db
             /\ resp' = Response("advance_character", pid, NoBody, 400, detail, NoBody)
             /\ Snapshots(pid, c.db, FALSE, FALSE)
        ELSE /\ db' = d2
             /\ resp' = Response("advance_character", pid, NoBody, 200, "ok",
                          [new_character_level |-> set.character_level,
                           new_character_name |-> CHARACTER_LEVELS[set.character_level].name,
                           new_character_multiplier |-> CHARACTER_LEVELS[set.character_level].multiplier,
                           new_max_energy |-> CHARACTER_LEVELS[set.character_level].max_energy])
             /\ Snapshots(pid, d2, TRUE, TRUE)

manual_save(pid) ==
  LET c == CatchUp(db, pid, clock)
      now == clock
      d2 == UpdateOne(c.db, pid, [last_save |-> now])
  IN /\ nreq < MaxRequests
     /\ Served
     /\ db' = d2
     /\ resp' = Response("manual_save", pid, NoBody, 200, "ok", [save_time |-> now])
     /\ Snapshots(pid, d2, FALSE, FALSE)

\* export_save_data that stores the last_save it reports
export_save_data_saving(pid) ==
  LET c == CatchUp(db, pid, clock)
      player == c.player
      last_save == IF player.last_save = None THEN clock ELSE player.last_save
      d2 == UpdateOne(c.db, pid, [last_save |-> last_save])
      save_data == [player_id |-> player.player_id,
                    points |-> player.points,
                    energy |-> player.energy,
                    character_level |-> player.character_level,
                    upgrade_level |-> player.upgrade_level,
                    last_energy_update |-> player.last_energy_update,
                    last_passive_income |-> player.last_passive_income,
                    last_save |-> last_save,
                    export_timestamp |-> clock]
  IN /\ nreq < MaxRequests
     /\ Served
     /\ db' = d2
     /\ resp' = Response("export_save_data", pid, NoBody, 200, "ok", save_data)
     /\ Snapshots(pid, d2, FALSE, FALSE)

export_save_data(pid) ==
  LET c == CatchUp(db, pid, clock)
      player == c.player
      save_data == [player_id |-> player.player_id,
                    points |-> player.points,
                    energy |-> player.energy,
                    character_level |-> player.character_level,
                    upgrade_level |-> player.upgrade_level,
                    last_energy_update |-> player.last_energy_update,
                    last_passive_income |-> player.last_passive_income,
                    last_save |-> IF player.last_save = None THEN clock ELSE player.last_save,
                    export_timestamp |-> clock]
  IN /\ nreq < MaxRequests
     /\ Served
     /\ db' = c.db
     /\ resp' = Response("export_save_data", pid, NoBody, 200, "ok", save_data)
     /\ Snapshots(pid, c.db, FALSE, FALSE)

\* update_one with $setOnInsert in place of $set: an existing record is left as it is
UpsertOne_insertonly(d, pid, set) ==
  IF pid \in DOMAIN d
  THEN d
  ELSE (pid :> ([player_id |-> pid] @@ set)) @@ d

\* db.players.update_one({"player_id": pid}, {"$set": set}, upsert=True)
UpsertOne(d, pid, set) ==
  IF pid \in DOMAIN d
  THEN [d EXCEPT ![pid] = SetFields(@, set)]
  ELSE (pid :> ([player_id |-> pid] @@ set)) @@ d

\* datetime.isoformat and datetime.fromisoformat; a timestamp string is well formed (wf) or not
isoformat(t) == [wf |-> TRUE, t |-> t]

fromisoformat(str) == str.t

missing_fields(save_data) ==
  SelectSeq(<<"points", "energy", "character_level", "upgrade_level">>,
            LAMBDA field : field \notin DOMAIN save_data)

\* import_check without the range checks on character_level and energy
import_check_norange(save_data) ==
  IF missing_fields(save_data) # << >> THEN "Invalid save data: missing fields"
  ELSE IF BigLess(save_data.points, Zero) \/ save_data.upgrade_level < 0
  THEN "Invalid points or upgrade level"
  ELSE ""

\* import_check looking at points and upgrade_level before the energy
import_check_pointsfirst(save_data) ==
  IF missing_fields(save_data) # << >> THEN "Invalid save data: missing fields"
  ELSE IF save_data.character_level < 1 \/ save_data.character_level > 5
  THEN "Invalid character level"
  ELSE IF BigLess(save_data.points, Zero) \/ save_data.upgrade_level < 0
  THEN "Invalid points or upgrade level"
  ELSE IF \/ save_data.energy < 0
          \/ save_data.energy > CHARACTER_LEVELS[save_data.character_level].max_energy
  THEN "Invalid energy value"
  ELSE ""

import_check(save_data) ==
  IF missing_fields(save_data) # << >> THEN "Invalid save data: missing fields"
  ELSE IF save_data.character_level < 1 \/ save_data.character_level > 5
  THEN "Invalid character level"
  ELSE IF \/ save_data.energy < 0
          \/ save_data.energy > CHARACTER_LEVELS[save_data.character_level].max_energy
  THEN "Invalid energy value"
  ELSE IF BigLess(save_data.points, Zero) \/ save_data.upgrade_level < 0
  THEN "Invalid points or upgrade level"
  ELSE ""

\* import_set in which each timestamp falls back to now on its own
import_set_eachown(save_data, now) ==
  LET energy_str == IF "last_energy_update" \in DOMAIN save_data
                    THEN save_data.last_energy_update ELSE isoformat(now)
      passive_str == IF "last_passive_income" \in DOMAIN save_data
                     THEN save_data.last_passive_income ELSE isoformat(now)
  IN [points |-> save_data.points,
      energy |-> save_data.energy,
      character_level |-> save_data.character_level,
      upgrade_level |-> save_data.upgrade_level,
      last_energy_update |-> IF energy_str.wf THEN fromisoformat(energy_str) ELSE now,
      last_passive_income |-> IF passive_str.wf THEN fromisoformat(passive_str) ELSE now,
      last_save |-> now]

import_set(save_data, now) ==
  LET energy_str == IF "last_energy_update" \in DOMAIN save_data
                    THEN save_data.last_energy_update ELSE isoformat(now)
      passive_str == IF "last_passive_income" \in DOMAIN save_data
                     THEN save_data.last_passive_income ELSE isoformat(now)
      parsed == energy_str.wf /\ passive_str.wf
      last_energy_update == IF parsed THEN fromisoformat(energy_str) ELSE now
      last_passive_income == IF parsed THEN fromisoformat(passive_str) ELSE now
  IN [points |-> save_data.points,
      energy |-> save_data.energy,
      character_level |-> save_data.character_level,
      upgrade_level |-> save_data.upgrade_level,
      last_energy_update |-> last_energy_update,
      last_passive_income |-> last_passive_income,
      last_save |-> now]

import_save_data(pid, save_data) ==
  LET detail == import_check(save_data)
      d2 == UpsertOne(db, pid, import_set(save_data, clock))
      args == [save_data |-> save_data]
  IN /\ nreq < MaxRequests
     /\ Served
     /\ IF detail # ""
        THEN /\ resp' = Response("import_save_data", pid, args, 400, detail,
                          [missing_fields |-> missing_fields(save_data)])
             /\ UNCHANGED <<db, regen, income>>
        ELSE /\ db' = d2
             /\ resp' = Response("import_save_data", pid, args, 200, "ok",
                          [points |-> save_data.points,
                           character_level |-> save_data.character_level,
                           upgrade_level |-> save_data.upgrade_level])
             /\ regen' = [regen EXCEPT ![pid] = EnergySnap(d2[pid])]
             /\ income' = [income EXCEPT ![pid] = PointsSnap(d2[pid])]

\* ------------------------------------------------------------------------
\* The save blobs offered to import
\* ------------------------------------------------------------------------
\* one click at upgrade level 0 short of the advancement cost of tier c
NearAdvance(c) ==
  BigSub(CHARACTER_LEVELS[c].advancement_cost, calculate_points_per_click(0) * CHARACTER_LEVELS[c].multiplier)

Core(p, e, c, u) == [points |-> p, energy |-> e, character_level |-> c, upgrade_level |-> u]

ValidCores ==
  {Core(NearAdvance(c), 10, c, 0) : c \in 1..4}
    \cup {Core(Pts(100), 0, 1, 0), Core(Pts(100), 10, 2, 1), Core(Pts(5000), 300, 5, 0)}

InvalidCores ==
  {Core(Pts(100), 10, 0, 0), Core(Pts(100), 10, 6, 0), Core(Pts(100), -1, 1, 0),
   Core(Pts(100), 101, 1, 0), Core(Big(-1), 10, 1, 0), Core(Pts(100), 10, 1, -1)}

Without(blob, key) == [k \in DOMAIN blob \ {key} |-> blob[k]]

\* the two timestamp fields of a blob, each absent, malformed, or the ISO string of an
\* instant: one before every request of a run, or one after all of them
StampChoices ==
  LET absent == [present |-> FALSE, wf |-> FALSE, t |-> 0]
      bad == [present |-> TRUE, wf |-> FALSE, t |-> 0]
      past == [present |-> TRUE, wf |-> TRUE, t |-> -55]
      future == [present |-> TRUE, wf |-> TRUE, t |-> 140]
  IN {<<past, past>>, <<future, future>>, <<absent, past>>, <<past, absent>>,
      <<bad, past>>, <<past, bad>>, <<bad, bad>>}

Stamped(core, se, sp) ==
  LET full == [points |-> core.points, energy |-> core.energy,
               character_level |-> core.character_level, upgrade_level |-> core.upgrade_level,
               last_energy_update |-> [wf |-> se.wf, t |-> se.t],
               last_passive_income |-> [wf |-> sp.wf, t |-> sp.t]]
      absent == (IF se.present THEN {} ELSE {"last_energy_update"})
                  \cup (IF sp.present THEN {} ELSE {"last_passive_income"})
  IN [k \in DOMAIN full \ absent |-> full[k]]

ImportBlobs ==
  ValidCores \cup InvalidCores
    \cup {Without(Core(Pts(100), 10, 1, 0), "energy")}
    \cup {Stamped(Core(Pts(100), 10, 2, 1), st[1], st[2]) : st \in StampChoices}

Next ==
  \/ \E t \in Instants : Tick(t)
  \/ \E p \in Players : get_player(p)
  \/ \E p \in Players : click(p)
  \/ \E p \in Players, l \in 0..(MaxUpgrade - 1) : purchase_upgrade(p, l)
  \/ \E p \in Players : advance_character(p)
  \/ \E p \in Players : manual_save(p)
  \/ \E p \in Players : export_save_data(p)
  \/ \E p \in Players, blob \in ImportBlobs : import_save_data(p, blob)

Spec == Init /\ [][Next]_vars

\* ------------------------------------------------------------------------
\* Import alone, offered blobs in which any of the four required fields is
\* absent, in range or out of range, over an empty store or a stored record
\* ------------------------------------------------------------------------
\* a required field of a blob: absent, or present with value v
Absent(v) == [present |-> FALSE, v |-> v]

Present(vs) == {[present |-> TRUE, v |-> v] : v \in vs}

FieldChoices ==
  [points : {Absent(Zero)} \cup Present({Big(-1), Pts(100)}),
   energy : {Absent(0)} \cup Present({-1, 10, 101}),
   character_level : {Absent(0)} \cup Present({0, 1, 2, 6}),
   upgrade_level : {Absent(0)} \cup Present({-1, 0})]

Chosen(ch) ==
  LET present == {k \in DOMAIN ch : ch[k].present}
  IN [k \in present |-> ch[k].v]

ValidationBlobs == {Chosen(ch) : ch \in FieldChoices}

\* the stores an import can meet: no record, or the record an earlier import left
StoresBeforeImport ==
  {<< >>, UpsertOne(<< >>, "p1", import_set(Core(Pts(5000), 300, 5, 0), 0))}

InitImport ==
  /\ db \in StoresBeforeImport
  /\ clock = 0
  /\ resp = [op |-> "none", player_id |-> "", args |-> NoBody, at |-> 0,
             status |-> 0, detail |-> "", body |-> NoBody]
  /\ regen = [p \in Players |-> IF p \in DOMAIN db THEN EnergySnap(db[p]) ELSE NoSnap]
  /\ income = [p \in Players |-> IF p \in DOMAIN db THEN PointsSnap(db[p]) ELSE NoSnap]
  /\ nreq = 0
  /\ procs = [r \in Procs |-> IdleProc]
  /\ calc = NoCalc

NextImport == \E p \in Players, blob \in ValidationBlobs : import_save_data(p, blob)

SpecImport == InitImport /\ [][NextImport]_vars

\* ------------------------------------------------------------------------
\* The handlers one store call at a time.  A request r arrives (Begin), reads
\* or creates its record (Find, Insert), runs update_energy and
\* update_passive_income, each with its own update_one (Energy, Passive), and
\* ends with the handler's check and $set (Act).  Import goes from Begin to
\* Act.  Any store call can raise, which the handler answers with a 500 (Fail).
\* ------------------------------------------------------------------------
\* act_check deciding a purchase on the stored record at the moment of the write, as a
\* compare-and-swap would, instead of on the copy the handler holds
act_check_cas(op, player, args) ==
  CASE op = "click" -> click_check(player)
    [] op = "purchase_upgrade" ->
         purchase_check(IF player.player_id \in DOMAIN db THEN db[player.player_id] ELSE player,
                        args.upgrade_level)
    [] op = "advance_character" -> advance_check(player)
    [] op = "import_save_data" -> import_check(args.save_data)
    [] OTHER -> ""

\* the detail of the handler's 400 answer on the copy it holds, "" when it passes
act_check(op, player, args) ==
  CASE op = "click" -> click_check(player)
    [] op = "purchase_upgrade" -> purchase_check(player, args.upgrade_level)
    [] op = "advance_character" -> advance_check(player)
    [] op = "import_save_data" -> import_check(args.save_data)
    [] OTHER -> ""

\* act_write that takes the price and the energy of a click off the stored values
act_write_relative(d, op, pid, player, args, now) ==
  CASE op = "click" ->
         UpdateOne(d, pid, [click_set(player, now) EXCEPT !.energy = d[pid].energy - 2])
    [] op = "purchase_upgrade" ->
         UpdateOne(d, pid,
                   [purchase_set(player, args.upgrade_level, now) EXCEPT
                      !.points = BigSub(d[pid].points,
                                        get_upgrade_cost(args.upgrade_level) * PointUnit)])
    [] op = "advance_character" -> UpdateOne(d, pid, advance_set(player, now))
    [] op = "manual_save" -> UpdateOne(d, pid, [last_save |-> now])
    [] op = "import_save_data" -> UpsertOne(d, pid, import_set(args.save_data, now))
    [] OTHER -> d

\* the handler's own store write
act_write(d, op, pid, player, args, now) ==
  CASE op = "click" -> UpdateOne(d, pid, click_set(player, now))
    [] op = "purchase_upgrade" -> UpdateOne(d, pid, purchase_set(player, args.upgrade_level, now))
    [] op = "advance_character" -> UpdateOne(d, pid, advance_set(player, now))
    [] op = "manual_save" -> UpdateOne(d, pid, [last_save |-> now])
    [] op = "import_save_data" -> UpsertOne(d, pid, import_set(args.save_data, now))
    [] OTHER -> d

\* the requests of SpecSteps
StepRequests ==
  {[op |-> op, args |-> NoBody] :
     op \in {"get_player", "click", "advance_character", "manual_save", "export_save_data"}}
    \cup {[op |-> "purchase_upgrade", args |-> [upgrade_level |-> 0]]}
    \cup {[op |-> "import_save_data", args |-> [save_data |-> Core(Pts(100), 10, 2, 1)]]}

\* the stores SpecSteps starts from: no record, or a record imported 70 s ago with 100
\* points and not touched since
StoresBeforeSteps ==
  {<< >>,
   UpsertOne(<< >>, "p1",
             [import_set(Core(Pts(100), 10, 1, 0), -70) EXCEPT !.last_energy_update = -70,
                                                               !.last_passive_income = -70])}

InitSteps ==
  /\ db \in StoresBeforeSteps
  /\ clock = 0
  /\ resp = [op |-> "none", player_id |-> "", args |-> NoBody, at |-> 0,
             status |-> 0, detail |-> "", body |-> NoBody]
  /\ regen = [p \in Players |-> IF p \in DOMAIN db THEN EnergySnap(db[p]) ELSE NoSnap]
  /\ income = [p \in Players |-> IF p \in DOMAIN db THEN PointsSnap(db[p]) ELSE NoSnap]
  /\ nreq = 0
  /\ procs = [r \in Procs |-> IdleProc]
  /\ calc = NoCalc

Quiet == UNCHANGED <<clock, resp, regen, income, nreq, calc>>

Begin(r, req, pid) ==
  /\ procs[r].pc = "idle"
  /\ procs' = [procs EXCEPT ![r] = [@ EXCEPT !.pc = IF req.op = "import_save_data" THEN "act" ELSE "find",
                                              !.op = req.op, !.args = req.args, !.player_id = pid,
                                              !.t0 = clock, !.db0 = db]]
  /\ UNCHANGED db
  /\ Quiet

\* db.players.find_one, and the record to insert when there is none
Find(r) ==
  LET q == procs[r]
      found == q.player_id \in DOMAIN db
      player == IF found THEN db[q.player_id]
                ELSE [player_id |-> q.player_id, points |-> Zero, energy |-> 100,
                      character_level |-> 1, upgrade_level |-> 0,
                      last_energy_update |-> clock, last_passive_income |-> clock,
                      last_save |-> None]
  IN /\ q.pc = "find"
     /\ procs' = [procs EXCEPT ![r] = [@ EXCEPT !.pc = IF found THEN "energy" ELSE "insert",
                                                 !.player = player]]
     /\ UNCHANGED db
     /\ Quiet

\* db.players.insert_one; a record inserted meanwhile by another request stays the one
\* that find_one and update_one see
Insert(r) ==
  LET q == procs[r]
  IN /\ q.pc = "insert"
     /\ db' = IF q.player_id \in DOMAIN db THEN db ELSE (q.player_id :> q.player) @@ db
     /\ procs' = [procs EXCEPT ![r] = [@ EXCEPT !.pc = "energy"]]
     /\ Quiet

Energy(r) ==
  LET q == procs[r]
      u == update_energy(db, q.player, clock)
  IN /\ q.pc = "energy"
     /\ db' = u.db
     /\ procs' = [procs EXCEPT ![r] = [@ EXCEPT !.pc = "passive", !.player = u.player]]
     /\ Quiet

Passive(r) ==
  LET q == procs[r]
      u == update_passive_income(db, q.player, clock)
  IN /\ q.pc = "passive"
     /\ db' = u.db
     /\ procs' = [procs EXCEPT ![r] = [@ EXCEPT !.pc = "act", !.player = u.player]]
     /\ Quiet

Act(r) ==
  LET q == procs[r]
      detail == act_check(q.op, q.player, q.args)
  IN /\ q.pc = "act"
     /\ IF detail # ""
        THEN /\ UNCHANGED db
             /\ procs' = [procs EXCEPT ![r] = [@ EXCEPT !.pc = "done", !.status = 400, !.detail = detail]]
        ELSE /\ db' = act_write(db, q.op, q.player_id, q.player, q.args, clock)
             /\ procs' = [procs EXCEPT ![r] = [@ EXCEPT !.pc = "done", !.status = 200, !.detail = "ok"]]
     /\ Quiet

\* the store call the request is about to make raises
Fail(r) ==
  /\ procs[r].pc \in {"find", "insert", "energy", "passive", "act"}
  /\ procs' = [procs EXCEPT ![r] = [@ EXCEPT !.pc = "done", !.status = 500, !.detail = "store"]]
  /\ UNCHANGED db
  /\ Quiet

\* the instants of SpecSteps: the requests arrive at 0 or 15 and a step can wait until 15
StepInstants == {0, 15}

NextSteps ==
  \/ \E t \in StepInstants : Tick(t)
  \/ \E r \in Procs, req \in StepRequests, p \in Players : Begin(r, req, p)
  \/ \E r \in Procs : Find(r)
  \/ \E r \in Procs : Insert(r)
  \/ \E r \in Procs : Energy(r)
  \/ \E r \in Procs : Passive(r)
  \/ \E r \in Procs : Act(r)
  \/ \E r \in Procs : Fail(r)

SpecSteps == InitSteps /\ [][NextSteps]_vars

\* ------------------------------------------------------------------------
\* The formulas applied to inputs of their own: get_upgrade_cost to a level,
\* the per-click yield as click, update_passive_income and get_player compute
\* it to an upgrade level and a tier, format_number to stored points
\* ------------------------------------------------------------------------
\* numbers of points around the edges of the bands of format_number: m thousandths of
\* 10^3, 10^6, 10^9 and 10^12 points, and numbers below 1000 points
FormatInputs ==
  {Scaled(m, 3 * e - 2) : m \in {1000, 1049, 1050, 1051, 1150, 1250, 1500, 2500,
                                 99950, 999949, 999950, 999999},
                          e \in 1..4}
    \cup {Zero, Big(5), Pts(1), Big(975), Pts(999), Big(9999)}

StoresBeforeCalc ==
  {UpsertOne(<< >>, "p1", import_set(Core(n, 10, 1, 0), 0)) : n \in FormatInputs}

InitCalc ==
  /\ db \in StoresBeforeCalc
  /\ clock = 0
  /\ resp = [op |-> "none", player_id |-> "", args |-> NoBody, at |-> 0,
             status |-> 0, detail |-> "", body |-> NoBody]
  /\ regen = [p \in Players |-> EnergySnap(db[p])]
  /\ income = [p \in Players |-> PointsSnap(db[p])]
  /\ nreq = 0
  /\ procs = [r \in Procs |-> IdleProc]
  /\ calc = NoCalc

Applied(fn, arg, out) ==
  /\ calc' = [fn |-> fn, arg |-> arg, out |-> out]
  /\ UNCHANGED <<db, clock, resp, regen, income, nreq, procs>>

CalcCost(level) ==
  Applied("get_upgrade_cost", [level |-> level], [cost |-> get_upgrade_cost(level)])

\* the yield of one click at upgrade level u in tier c: as calculate_points_per_click
\* returns it, as click earns it, as update_passive_income pays it for 60 s, and as
\* get_player shows it
CalcYield(u, c) ==
  LET player == [NoPlayer EXCEPT !.player_id = "p1", !.upgrade_level = u, !.character_level = c,
                                 !.energy = 2, !.last_passive_income = clock - 60]
  IN Applied("points_per_click", [upgrade_level |-> u, character_level |-> c],
             [base |-> calculate_points_per_click(u),
              click |-> click_set(player, clock).points,
              passive |-> update_passive_income(db, player, clock).player.points,
              view |-> player_view(player).points_per_click])

\* format_number(player["points"]) of get_player
CalcFormat(pid) ==
  Applied("format_number", [num |-> db[pid].points], format_number(db[pid].points))

NextCalc ==
  \/ \E level \in 0..MaxLevel : CalcCost(level)
  \/ \E u \in 0..MaxLevel, c \in 1..5 : CalcYield(u, c)
  \/ \E p \in Players : CalcFormat(p)

SpecCalc == InitCalc /\ [][NextCalc]_vars

\* ------------------------------------------------------------------------
\* Vocabulary of the properties
\* ------------------------------------------------------------------------
MaxEnergyOf(doc) == CHARACTER_LEVELS[doc.character_level].max_energy

\* the per-click yield of a record, in tenths of a point
YieldOf(doc) == calculate_points_per_click(doc.upgrade_level) * CHARACTER_LEVELS[doc.character_level].multiplier

\* the record a request for pid finds: the stored one, or the one created on first reference
Found(pid) ==
  IF pid \in DOMAIN db THEN db[pid]
  ELSE [player_id |-> pid, points |-> Zero, energy |-> 100, character_level |-> 1, upgrade_level |-> 0,
        last_energy_update |-> clock, last_passive_income |-> clock, last_save |-> None]

\* the record brought to the instant now, as sections 4.3 and 4.4 of the specification state it
Regenerated(doc, now) ==
  IF now - doc.last_energy_update >= 10
  THEN [doc EXCEPT !.energy = Min(@ + (now - doc.last_energy_update) \div 10, MaxEnergyOf(doc)),
                   !.last_energy_update = now]
  ELSE doc

Accrued(doc, now) ==
  IF now - doc.last_passive_income >= 60
  THEN [doc EXCEPT !.points = BigAdd(@, ((now - doc.last_passive_income) \div 60) * YieldOf(doc)),
                   !.last_passive_income = now]
  ELSE doc

CaughtUp(pid) == Accrued(Regenerated(Found(pid), clock), clock)

\* this step serves a request op for player pid
Req(op, pid) == nreq' = nreq + 1 /\ resp'.op = op /\ resp'.player_id = pid

Refused(r) == r.status = 400

\* answers of requests that leave the energy to catch-up: all but click, advance and import
EnergyQuiet(r) ==
  \/ r.op \in {"get_player", "manual_save", "export_save_data", "purchase_upgrade"}
  \/ r.op \in {"click", "advance_character"} /\ Refused(r)

\* answers of requests that leave the points to catch-up: all but click, purchase, advance and import
PointsQuiet(r) ==
  \/ r.op \in {"get_player", "manual_save", "export_save_data"}
  \/ r.op \in {"click", "purchase_upgrade", "advance_character"} /\ Refused(r)

\* ------------------------------------------------------------------------
\* Properties
\* ------------------------------------------------------------------------

\* C1: every stored record has 0 <= energy <= max_energy(character_level), after any
\* sequence of requests with any amount of time between them.
C1_EnergyWithinCapacity ==
  \A p \in DOMAIN db : db[p].energy >= 0 /\ db[p].energy <= MaxEnergyOf(db[p])

\* a read found a full record more than 10 seconds after its anchor: regeneration hit the cap
WitC1 ==
  \E p \in DOMAIN db :
    /\ resp.op = "get_player" /\ resp.player_id = p
    /\ regen[p].set /\ db[p].last_energy_update >= regen[p].t + 10
    /\ db[p].energy = MaxEnergyOf(db[p])

\* C2: every stored record has points >= 0; a purchase never drives the points below zero
\* and a request other than a successful purchase, advance or import never lowers them.
C2_PointsNonNegative ==
  [][\A p \in DOMAIN db' :
       /\ BigGeq(db'[p].points, Zero)
       /\ (p \in DOMAIN db /\ ~(\E op \in {"purchase_upgrade", "advance_character", "import_save_data"} :
                                  Req(op, p) /\ ~Refused(resp'))
             => BigGeq(db'[p].points, db[p].points))]_vars

\* a purchase spent the last point
WitC2 ==
  \E p \in DOMAIN db :
    /\ resp.op = "purchase_upgrade" /\ resp.player_id = p /\ ~Refused(resp)
    /\ db[p].points = Zero

\* C3: character_level stays in 1..5; an advance request on a tier-5 record fails whatever
\* the points and leaves the tier at 5; an import with a tier outside 1..5 is rejected.
C3_TierWithinRange ==
  [][/\ \A p \in DOMAIN db' : db'[p].character_level \in 1..5
     /\ \A p \in DOMAIN db :
          Req("advance_character", p) /\ db[p].character_level = 5
            => Refused(resp') /\ db'[p].character_level = 5
     /\ \A p \in Players :
          (/\ Req("import_save_data", p)
           /\ "character_level" \in DOMAIN resp'.args.save_data
           /\ resp'.args.save_data.character_level \notin 1..5)
            => Refused(resp') /\ db' = db]_vars

\* an advance was refused at tier 5 to a player holding the advancement cost of tier 1
WitC3 ==
  \E p \in DOMAIN db :
    /\ resp.op = "advance_character" /\ resp.player_id = p /\ Refused(resp)
    /\ db[p].character_level = 5
    /\ BigGeq(db[p].points, Pts(5000))

\* C4: a click on a record whose caught-up energy is at least 2 succeeds, adds exactly
\* base_points_per_click(upgrade_level) * multiplier(character_level) to the points, takes
\* exactly 2 from the energy (never below 0), sets last_save to now, reports the amount as
\* points_earned, and leaves character_level and upgrade_level alone.
C4_ClickEffect ==
  [][\A p \in Players :
       LET pre == CaughtUp(p)
       IN Req("click", p) /\ pre.energy >= 2
            => /\ ~Refused(resp')
               /\ db'[p].points = BigAdd(pre.points, YieldOf(pre))
               /\ db'[p].energy = pre.energy - 2
               /\ db'[p].energy >= 0
               /\ db'[p].last_save = clock
               /\ resp'.body.points_earned = YieldOf(pre)
               /\ db'[p].character_level = pre.character_level
               /\ db'[p].upgrade_level = pre.upgrade_level]_vars

\* a click took the energy from 10 to 8
WitC4 ==
  \E p \in DOMAIN db :
    /\ resp.op = "click" /\ resp.player_id = p /\ ~Refused(resp)
    /\ resp.body.new_energy = 8 /\ db[p].energy = 8
    /\ resp.body.points_earned > 0

\* C5 as stated: a click fails iff the energy is below 2, and a failed click changes no
\* stored field.
C5_FailedClickChangesNothing ==
  [][\A p \in Players :
       Req("click", p)
         => /\ Refused(resp') <=> CaughtUp(p).energy < 2
            /\ Refused(resp') => db' = db]_vars

\* C5, amended: a click fails iff the caught-up energy is below 2, whatever the points,
\* and a failed click stores exactly the caught-up record: energy, points and the two
\* anchors as catch-up leaves them, character_level, upgrade_level and last_save untouched.
C5_FailedClickOnlyCatchesUp ==
  [][\A p \in Players :
       Req("click", p)
         => /\ Refused(resp') <=> CaughtUp(p).energy < 2
            /\ Refused(resp') => db'[p] = CaughtUp(p)
            /\ Refused(resp') => /\ db'[p].character_level = Found(p).character_level
                                 /\ db'[p].upgrade_level = Found(p).upgrade_level
                                 /\ db'[p].last_save = Found(p).last_save]_vars

\* a click was refused after catch-up had raised the stored energy
WitC5 ==
  \E p \in DOMAIN db :
    /\ resp.op = "click" /\ resp.player_id = p /\ Refused(resp)
    /\ regen[p].set /\ db[p].energy > regen[p].e
    /\ db[p].last_energy_update = resp.at

\* C6: a purchase whose argument equals the stored upgrade_level succeeds iff the caught-up
\* points reach upgrade_cost(upgrade_level), equality included; it then takes exactly the
\* cost from the points, adds 1 to upgrade_level, sets last_save to now and leaves energy
\* and character_level as caught up; otherwise it fails and upgrade_level stays.
C6_PurchaseEffect ==
  [][\A p \in Players :
       LET pre == CaughtUp(p)
           cost == get_upgrade_cost(pre.upgrade_level)
       IN Req("purchase_upgrade", p) /\ resp'.args.upgrade_level = pre.upgrade_level
            => IF BigGeq(pre.points, Pts(cost))
               THEN /\ ~Refused(resp')
                    /\ db'[p].points = BigSub(pre.points, cost * PointUnit)
                    /\ db'[p].upgrade_level = pre.upgrade_level + 1
                    /\ db'[p].last_save = clock
                    /\ db'[p].energy = pre.energy
                    /\ db'[p].character_level = pre.character_level
               ELSE /\ Refused(resp')
                    /\ db'[p].upgrade_level = pre.upgrade_level]_vars

\* the first upgrade was bought with exactly 100 points
WitC6 ==
  \E p \in DOMAIN db :
    /\ resp.op = "purchase_upgrade" /\ resp.player_id = p /\ ~Refused(resp)
    /\ resp.args.upgrade_level = 0
    /\ db[p].points = Zero /\ db[p].upgrade_level = 1

\* C7: a purchase whose argument differs from the stored upgrade_level fails as an invalid
\* upgrade level, affordable or not, and leaves points and upgrade_level as caught up.
C7_StalePurchaseRefused ==
  [][\A p \in Players :
       LET pre == CaughtUp(p)
       IN Req("purchase_upgrade", p) /\ resp'.args.upgrade_level # pre.upgrade_level
            => /\ Refused(resp')
               /\ resp'.detail = "Invalid upgrade level"
               /\ db'[p].points = pre.points
               /\ db'[p].upgrade_level = pre.upgrade_level]_vars

\* a purchase both stale and unaffordable was refused as an invalid upgrade level
WitC7 ==
  \E p \in DOMAIN db :
    /\ resp.op = "purchase_upgrade" /\ resp.player_id = p
    /\ resp.detail = "Invalid upgrade level"
    /\ resp.args.upgrade_level # db[p].upgrade_level
    /\ BigLess(db[p].points, Pts(get_upgrade_cost(resp.args.upgrade_level)))

\* C8: an advance on a record of tier c < 5 succeeds iff the caught-up points reach
\* advancement_cost(c); it then stores tier c+1, points 0, upgrade_level 0, energy
\* max_energy(c+1) and the three timestamps at now; otherwise tier and upgrade_level stay.
C8_AdvanceEffect ==
  [][\A p \in Players :
       LET pre == CaughtUp(p)
           c == pre.character_level
       IN Req("advance_character", p) /\ c < 5
            => IF BigGeq(pre.points, CHARACTER_LEVELS[c].advancement_cost)
               THEN /\ ~Refused(resp')
                    /\ db'[p].character_level = c + 1
                    /\ db'[p].points = Zero
                    /\ db'[p].upgrade_level = 0
                    /\ db'[p].energy = CHARACTER_LEVELS[c + 1].max_energy
                    /\ db'[p].last_energy_update = clock
                    /\ db'[p].last_passive_income = clock
                    /\ db'[p].last_save = clock
               ELSE /\ Refused(resp')
                    /\ db'[p].character_level = c
                    /\ db'[p].upgrade_level = pre.upgrade_level]_vars

\* an advance took a player from tier 1 to tier 2 with a full energy of 150
WitC8 ==
  \E p \in DOMAIN db :
    /\ resp.op = "advance_character" /\ resp.player_id = p /\ ~Refused(resp)
    /\ db[p].character_level = 2 /\ db[p].points = Zero
    /\ db[p].upgrade_level = 0 /\ db[p].energy = 150

\* the energy a record holding e0 at anchor t0 is due at instant t
DueEnergy(snap, doc, t) == Min(snap.e + (t - snap.t) \div 10, MaxEnergyOf(doc))

\* C9 as stated: after requests other than click, advance and import, the last one at t,
\* the stored energy is min(e0 + floor(t/10), max_energy) for a record that held e0 at
\* anchor 0.
C9_EnergyIsFloorOfElapsed ==
  \A p \in DOMAIN db :
    (resp.player_id = p /\ EnergyQuiet(resp) /\ regen[p].set /\ resp.at >= regen[p].t)
      => db[p].energy = DueEnergy(regen[p], db[p], resp.at)

\* C9, amended: over such a sequence the energy never decreases and stays between e0 and
\* min(e0 + floor(t/10), max_energy); it equals that value after the request at t when no
\* earlier request of the sequence regenerated energy (the anchor is still where it was),
\* since a regenerating request snaps the anchor to its instant and drops the remainder.
C9_EnergyRegeneration ==
  [][\A p \in DOMAIN db :
       (/\ nreq' = nreq + 1 /\ resp'.player_id = p /\ EnergyQuiet(resp')
        /\ regen[p].set /\ clock >= regen[p].t)
         => /\ db'[p].energy >= db[p].energy
            /\ db'[p].energy >= regen[p].e
            /\ db'[p].energy <= DueEnergy(regen[p], db[p], clock)
            /\ db[p].last_energy_update = regen[p].t
                 => db'[p].energy = DueEnergy(regen[p], db[p], clock)]_vars

\* a read left the energy above e0 and below min(e0 + floor(t/10), max_energy)
WitC9 ==
  \E p \in DOMAIN db :
    /\ resp.player_id = p /\ EnergyQuiet(resp) /\ regen[p].set
    /\ db[p].energy > regen[p].e
    /\ db[p].energy < DueEnergy(regen[p], db[p], resp.at)

\* the points a record holding p0 at anchor t0 is due at instant t
DuePoints(snap, doc, t) == BigAdd(snap.v, ((t - snap.t) \div 60) * YieldOf(doc))

\* C10 as stated: after requests other than click, purchase, advance and import, the last
\* one at t, the stored points are p0 + floor(t/60) * base_points_per_click * multiplier
\* for a record that held p0 at anchor 0.
C10_PointsAreFloorOfElapsed ==
  \A p \in DOMAIN db :
    (resp.player_id = p /\ PointsQuiet(resp) /\ income[p].set /\ resp.at >= income[p].t)
      => db[p].points = DuePoints(income[p], db[p], resp.at)

\* C10, amended: over such a sequence the points never decrease and stay between p0 and
\* p0 + floor(t/60) * base_points_per_click * multiplier; they equal that value after the
\* request at t when no earlier request of the sequence paid passive income (the anchor is
\* still where it was), since a paying request snaps the anchor and drops the remainder.
C10_PassiveIncome ==
  [][\A p \in DOMAIN db :
       (/\ nreq' = nreq + 1 /\ resp'.player_id = p /\ PointsQuiet(resp')
        /\ income[p].set /\ clock >= income[p].t)
         => /\ BigGeq(db'[p].points, db[p].points)
            /\ BigGeq(db'[p].points, income[p].v)
            /\ BigGeq(DuePoints(income[p], db[p], clock), db'[p].points)
            /\ db'[p].upgrade_level = db[p].upgrade_level
            /\ db'[p].character_level = db[p].character_level
            /\ db[p].last_passive_income = income[p].t
                 => db'[p].points = DuePoints(income[p], db[p], clock)]_vars

\* a read left the points above p0 and below p0 + floor(t/60) * yield
WitC10 ==
  \E p \in DOMAIN db :
    /\ resp.player_id = p /\ PointsQuiet(resp) /\ income[p].set
    /\ BigLess(income[p].v, db[p].points)
    /\ BigLess(db[p].points, DuePoints(income[p], db[p], resp.at))

\* C11: catch-up is idempotent.  On every stored record, at every instant, running
\* update_energy and update_passive_income and then running both again at the same
\* instant changes no field the second time, in the store or in the copy the handler
\* holds; and when fewer than 10 s (resp. 60 s) have passed since the anchor, the first
\* run leaves energy and last_energy_update (resp. points and last_passive_income) alone.
C11_CatchUpIdempotent ==
  \A p \in DOMAIN db :
    LET doc == db[p]
        e1 == update_energy(db, doc, clock)
        i1 == update_passive_income(e1.db, e1.player, clock)
        e2 == update_energy(i1.db, i1.player, clock)
        i2 == update_passive_income(e2.db, e2.player, clock)
    IN /\ e2 = i1
       /\ i2 = i1
       /\ clock - doc.last_energy_update < 10
            => /\ e1.player = doc /\ e1.db = db
               /\ i1.db[p].energy = doc.energy
               /\ i1.db[p].last_energy_update = doc.last_energy_update
       /\ clock - doc.last_passive_income < 60
            => /\ i1.db[p].points = doc.points
               /\ i1.db[p].last_passive_income = doc.last_passive_income
               /\ i1.player.points = doc.points

\* a stored record to which the first run grants energy and pays passive income
WitC11 ==
  \E p \in DOMAIN db :
    LET c == CatchUp(db, p, clock)
    IN /\ clock - db[p].last_energy_update >= 10
       /\ clock - db[p].last_passive_income >= 60
       /\ c.db[p].energy > db[p].energy
       /\ BigLess(db[p].points, c.db[p].points)
       /\ c.db[p].last_energy_update = clock
       /\ c.db[p].last_passive_income = clock

\* C12: import validates in a fixed order: (1) the four required fields are present,
\* (2) 1 <= character_level <= 5, (3) 0 <= energy <= max_energy of the imported level,
\* (4) points >= 0 and upgrade_level >= 0.  A blob is refused with the detail of the first
\* check it fails, whatever later checks it fails too, and accepted when it fails none;
\* a refused import changes no stored field and creates no record.
C12_ImportValidationOrder ==
  [][\A p \in Players :
       Req("import_save_data", p) =>
         LET blob == resp'.args.save_data
             fields == {"points", "energy", "character_level", "upgrade_level"} \subseteq DOMAIN blob
             level == 1 <= blob.character_level /\ blob.character_level <= 5
             energy == 0 <= blob.energy /\ blob.energy <= CHARACTER_LEVELS[blob.character_level].max_energy
             amounts == BigGeq(blob.points, Zero) /\ blob.upgrade_level >= 0
         IN /\ ~fields => Refused(resp') /\ resp'.detail = "Invalid save data: missing fields"
            /\ (fields /\ ~level) => Refused(resp') /\ resp'.detail = "Invalid character level"
            /\ (fields /\ level /\ ~energy) => Refused(resp') /\ resp'.detail = "Invalid energy value"
            /\ (fields /\ level /\ energy /\ ~amounts)
                 => Refused(resp') /\ resp'.detail = "Invalid points or upgrade level"
            /\ (fields /\ level /\ energy /\ amounts) => resp'.status = 200 /\ p \in DOMAIN db'
            /\ Refused(resp') => db' = db]_vars

\* a blob failing checks (3) and (4) was refused on its energy, and no record was created
WitC12 ==
  /\ resp.op = "import_save_data" /\ Refused(resp)
  /\ resp.detail = "Invalid energy value"
  /\ resp.args.save_data.energy = 101
  /\ BigLess(resp.args.save_data.points, Zero)
  /\ resp.args.save_data.upgrade_level = -1
  /\ db = << >>

\* C13: import then export is a round trip.  When the request served right after an
\* accepted import for P is an export for P, and fewer than 10 s have passed since the
\* stored last_energy_update and fewer than 60 s since the stored last_passive_income,
\* the export returns points, energy, character_level and upgrade_level equal to those of
\* the imported blob, whatever the store held for P before the import.
C13_ImportExportRoundTrip ==
  [][\A p \in Players :
       (/\ Req("export_save_data", p)
        /\ resp.op = "import_save_data" /\ resp.player_id = p /\ resp.status = 200
        /\ p \in DOMAIN db
        /\ clock - db[p].last_energy_update < 10
        /\ clock - db[p].last_passive_income < 60)
         => LET blob == resp.args.save_data
            IN /\ resp'.body.points = blob.points
               /\ resp'.body.energy = blob.energy
               /\ resp'.body.character_level = blob.character_level
               /\ resp'.body.upgrade_level = blob.upgrade_level]_vars

\* the third request of a run exported the tier-5 blob, in the second in which it was imported
WitC13 ==
  /\ nreq = 3
  /\ resp.op = "export_save_data" /\ resp.status = 200
  /\ resp.body.character_level = 5 /\ resp.body.energy = 300
  /\ resp.body.points = Pts(5000) /\ resp.body.upgrade_level = 0
  /\ resp.body.last_save = resp.at

\* the record of section 3 of the specification for a player first referenced at instant now,
\* with last_save as given
Fresh(pid, now, last_save) ==
  [player_id |-> pid, points |-> Zero, energy |-> 100, character_level |-> 1, upgrade_level |-> 0,
   last_energy_update |-> now, last_passive_income |-> now, last_save |-> last_save]

LazyOps == {"get_player", "click", "purchase_upgrade", "advance_character", "manual_save", "export_save_data"}

\* this step serves a request of LazyOps for a player the store does not know
FirstReference(p) ==
  /\ nreq' = nreq + 1 /\ resp'.player_id = p /\ resp'.op \in LazyOps
  /\ p \notin DOMAIN db

\* no step removes a record, and only an import creates one that is not the default record
\* or what the creating request's own action made of it
OnlyImportChooses ==
  /\ DOMAIN db \subseteq DOMAIN db'
  /\ \A p \in DOMAIN db' \ DOMAIN db :
       \/ resp'.op = "import_save_data"
       \/ /\ db'[p].character_level = 1 /\ db'[p].upgrade_level = 0
          /\ db'[p].last_energy_update = clock /\ db'[p].last_passive_income = clock
          /\ db'[p].points \in {Zero, BigAdd(Zero, YieldOf(Fresh(p, clock, None)))}
          /\ db'[p].energy \in {100, 98}

\* C14 as stated: the first reference to an unknown player by a request other than import
\* stores the default record with last_energy_update, last_passive_income and last_save at
\* the instant of creation (a click then acts on it: one click's points, energy 98); only
\* import creates other records and no record is ever removed.
C14_CreatedWithLastSave ==
  [][/\ \A p \in Players :
          FirstReference(p)
            => /\ p \in DOMAIN db'
               /\ db'[p] = IF resp'.op = "click"
                           THEN [Fresh(p, clock, clock) EXCEPT !.points = BigAdd(Zero, YieldOf(Fresh(p, clock, None))),
                                                               !.energy = 98]
                           ELSE Fresh(p, clock, clock)
     /\ OnlyImportChooses]_vars

\* C14, amended: the first reference stores the default record with last_energy_update and
\* last_passive_income at the instant of creation and no last_save; last_save is stored
\* only when the creating request is a click (which then acts on the record) or a save.
C14_LazyCreation ==
  [][/\ \A p \in Players :
          FirstReference(p)
            => /\ p \in DOMAIN db'
               /\ db'[p] = CASE resp'.op = "click"
                                  -> [Fresh(p, clock, clock) EXCEPT !.points = BigAdd(Zero, YieldOf(Fresh(p, clock, None))),
                                                                    !.energy = 98]
                             [] resp'.op = "manual_save" -> Fresh(p, clock, clock)
                             [] OTHER -> Fresh(p, clock, None)
     /\ OnlyImportChooses]_vars

\* a read created the record at a later instant than 0, and the record holds no last_save
WitC14 ==
  \E p \in DOMAIN db :
    /\ nreq = 1 /\ resp.op \in {"get_player", "export_save_data"} /\ resp.player_id = p
    /\ resp.at > 0
    /\ db[p] = Fresh(p, resp.at, None)

\* the store after request q applied as a whole to the store it met, at the instant it arrived
Whole(q) ==
  IF q.op = "import_save_data"
  THEN IF act_check(q.op, q.player, q.args) = ""
       THEN act_write(q.db0, q.op, q.player_id, q.player, q.args, q.t0)
       ELSE q.db0
  ELSE LET c == CatchUp(q.db0, q.player_id, q.t0)
       IN IF act_check(q.op, c.player, q.args) = ""
          THEN act_write(c.db, q.op, q.player_id, c.player, q.args, q.t0)
          ELSE c.db

\* request r has the store to itself and makes all its steps within the second it arrived in
Alone(r) ==
  /\ procs[r].pc # "idle"
  /\ \A r2 \in Procs \ {r} : procs[r2].pc = "idle"
  /\ clock = procs[r].t0

\* C15 as stated: no operation partially applies.  While a request is the only one to have
\* arrived, whether it is in flight, has answered, or has met a failing store call, the
\* store is the one the request met or the one with all the request's mutations (catch-up
\* and action) applied: no other store can be read between two of its steps.
C15_NoPartialApplication ==
  \A r \in Procs : Alone(r) => db = procs[r].db0 \/ db = Whole(procs[r])

\* C16: get_player, export and save have no effect beyond catch-up.  After get_player or
\* export the stored record is the record the request found (the default record for an
\* unknown player) brought to now: nothing but energy, last_energy_update, points and
\* last_passive_income differs.  After a save it is that record with last_save = now.
\* None of the three changes character_level or upgrade_level.
C16_ReadAndSaveFrame ==
  [][\A p \in Players :
       LET before == Found(p)
           after == db'[p]
       IN /\ (Req("get_player", p) \/ Req("export_save_data", p))
               => /\ after = CaughtUp(p)
                  /\ after.last_save = before.last_save
                  /\ after.character_level = before.character_level
                  /\ after.upgrade_level = before.upgrade_level
                  /\ after.player_id = before.player_id
          /\ Req("manual_save", p)
               => /\ after = [CaughtUp(p) EXCEPT !.last_save = clock]
                  /\ after.character_level = before.character_level
                  /\ after.upgrade_level = before.upgrade_level
                  /\ after.player_id = before.player_id]_vars

\* a save stored last_save = now on a record whose energy and points its catch-up had raised
WitC16 ==
  \E p \in DOMAIN db :
    /\ resp.op = "manual_save" /\ resp.player_id = p
    /\ db[p].last_save = resp.at
    /\ regen[p].set /\ db[p].energy > regen[p].e /\ db[p].last_energy_update = resp.at
    /\ income[p].set /\ BigLess(income[p].v, db[p].points) /\ db[p].last_passive_income = resp.at

RECURSIVE TenthsOfCosts(_)
TenthsOfCosts(n) == IF n = 0 THEN 0 ELSE get_upgrade_cost(n - 1) + TenthsOfCosts(n - 1)

OneDecimalOf(out, num, e, suffix) ==
  LET r == 10 * out.whole + out.frac
  IN /\ out.suffix = suffix
     /\ out.frac \in 0..9 /\ out.whole >= 0
     /\ BigGeq(num, Scaled(10 * r - 5, 3 * e - 1))
     /\ BigGeq(Scaled(10 * r + 5, 3 * e - 1), num)

\* C19: format_number chooses the band by the magnitude n: below 1,000 the truncated
\* integer with no suffix and no decimal digit; below 10^6 n / 10^3 with K; below 10^9
\* n / 10^6 with M; below 10^12 n / 10^9 with B; else n / 10^12 with T, each suffixed form
\* with exactly one decimal digit (999 -> "999", 1500 -> "1.5K", 2500000000 -> "2.5B").
\* The stored points are still the number that was formatted.
C19_FormatNumberBands ==
  calc.fn = "format_number" =>
    LET n == calc.arg.num
        out == calc.out
    IN /\ BigLess(n, Pts(1000))
            => /\ out.suffix = "" /\ out.frac = None
               /\ BigGeq(n, Pts(out.whole)) /\ BigLess(n, Pts(out.whole + 1))
       /\ (BigGeq(n, Pts(1000)) /\ BigLess(n, MegaPts(1))) => OneDecimalOf(out, n, 1, "K")
       /\ (BigGeq(n, MegaPts(1)) /\ BigLess(n, MegaPts(1000))) => OneDecimalOf(out, n, 2, "M")
       /\ (BigGeq(n, MegaPts(1000)) /\ BigLess(n, MegaPts(1000000))) => OneDecimalOf(out, n, 3, "B")
       /\ BigGeq(n, MegaPts(1000000)) => OneDecimalOf(out, n, 4, "T")
       /\ n = Pts(999) => out = [whole |-> 999, frac |-> None, suffix |-> ""]
       /\ n = Pts(1500) => out = [whole |-> 1, frac |-> 5, suffix |-> "K"]
       /\ n = MegaPts(2500) => out = [whole |-> 2, frac |-> 5, suffix |-> "B"]
       /\ \E p \in DOMAIN db : db[p].points = n

\* 999,950 points are rendered "1000.0K": the K band, one decimal digit
WitC19 ==
  /\ calc.fn = "format_number"
  /\ calc.arg.num = Pts(999950)
  /\ calc.out = [whole |-> 1000, frac |-> 0, suffix |-> "K"]
  /\ db["p1"].points = Pts(999950)

\* the fields an answer's own $set writes
OwnFields(r) ==
  IF r.status # 200 THEN {}
  ELSE CASE r.op = "click" -> {"points", "energy", "last_save"}
         [] r.op = "purchase_upgrade" -> {"points", "upgrade_level", "last_save"}
         [] r.op = "advance_character" -> {"character_level", "points", "upgrade_level", "energy",
                                           "last_energy_update", "last_passive_income", "last_save"}
         [] r.op = "manual_save" -> {"last_save"}
         [] r.op = "import_save_data" -> {"points", "energy", "character_level", "upgrade_level",
                                          "last_energy_update", "last_passive_income", "last_save"}
         [] OTHER -> {}

\* this step's request for p ran both catch-ups before anything else: its precondition was
\* decided on the record brought to now, and the fields its own $set does not write are
\* those of the record brought to now
CaughtUpFirst(p) ==
  LET before == CaughtUp(p)
      r == resp'
  IN /\ p \in DOMAIN db'
     /\ \A f \in DOMAIN before \ OwnFields(r) : db'[p][f] = before[f]
     /\ r.op = "click" => (Refused(r) <=> before.energy < 2)
     /\ r.op = "purchase_upgrade"
          => (Refused(r) <=> \/ r.args.upgrade_level # before.upgrade_level
                             \/ BigLess(before.points, Pts(get_upgrade_cost(r.args.upgrade_level))))
     /\ r.op = "advance_character"
          => (Refused(r) <=> \/ before.character_level >= 5
                             \/ BigLess(before.points, CHARACTER_LEVELS[before.character_level].advancement_cost))
     /\ (r.op = "click" /\ ~Refused(r)) => db'[p].energy = before.energy - 2

\* C20 as stated: every entry point, import included, runs energy catch-up and passive-income
\* catch-up on the stored record before anything else.
C20_EveryEntryPointCatchesUp ==
  [][\A p \in Players : (nreq' = nreq + 1 /\ resp'.player_id = p) => CaughtUpFirst(p)]_vars

\* C20, amended: every entry point but import runs both catch-ups before anything else.
\* Import runs none: a refused import leaves the store as it is, whatever the lag of the
\* record, and an accepted one stores the blob's fields and anchors.
C20_CatchUpBeforeAction ==
  [][\A p \in Players :
       /\ (nreq' = nreq + 1 /\ resp'.player_id = p /\ resp'.op # "import_save_data") => CaughtUpFirst(p)
       /\ (Req("import_save_data", p) /\ Refused(resp')) => db' = db
       /\ (Req("import_save_data", p) /\ ~Refused(resp'))
            => db'[p] = [player_id |-> p] @@ import_set(resp'.args.save_data, clock)]_vars

\* a click at t = 20 passed on the 2 energy that catch-up had just granted to a record
\* imported with energy 0
WitC20 ==
  /\ resp.op = "click" /\ resp.status = 200 /\ resp.at = 20
  /\ resp.body.new_energy = 0
  /\ resp.body.new_points = Pts(101)

\* the timestamp field of a blob is absent / is a string that does not parse
StampAbsent(blob, field) == field \notin DOMAIN blob

StampBad(blob, field) == field \in DOMAIN blob /\ ~blob[field].wf

\* C21 as stated: on an accepted import, if either last_energy_update or
\* last_passive_income is absent from the blob or fails to parse, both stored anchors are
\* the current instant; the supplied values are stored only when both are present and
\* well formed.
C21_BothAnchorsDefault ==
  [][\A p \in Players :
       (Req("import_save_data", p) /\ ~Refused(resp'))
         => LET blob == resp'.args.save_data
                faulty == \E f \in {"last_energy_update", "last_passive_income"} :
                            StampAbsent(blob, f) \/ StampBad(blob, f)
            IN /\ faulty => /\ db'[p].last_energy_update = clock
                            /\ db'[p].last_passive_income = clock
               /\ ~faulty => /\ db'[p].last_energy_update = blob.last_energy_update.t
                             /\ db'[p].last_passive_income = blob.last_passive_income.t]_vars

\* C21, amended: on an accepted import, if a timestamp that is present fails to parse, both
\* stored anchors are the current instant; otherwise an absent timestamp is stored as the
\* current instant and a present one as supplied, each on its own.
C21_ImportTimestamps ==
  [][\A p \in Players :
       (Req("import_save_data", p) /\ ~Refused(resp'))
         => LET blob == resp'.args.save_data
                bad == StampBad(blob, "last_energy_update") \/ StampBad(blob, "last_passive_income")
            IN /\ bad => /\ db'[p].last_energy_update = clock
                         /\ db'[p].last_passive_income = clock
               /\ ~bad => /\ db'[p].last_energy_update =
                               IF StampAbsent(blob, "last_energy_update") THEN clock
                               ELSE blob.last_energy_update.t
                          /\ db'[p].last_passive_income =
                               IF StampAbsent(blob, "last_passive_income") THEN clock
                               ELSE blob.last_passive_income.t]_vars

\* an import without last_energy_update stored now for it and the supplied last_passive_income
WitC21 ==
  \E p \in DOMAIN db :
    /\ resp.op = "import_save_data" /\ resp.status = 200 /\ resp.player_id = p
    /\ StampAbsent(resp.args.save_data, "last_energy_update")
    /\ ~StampAbsent(resp.args.save_data, "last_passive_income")
    /\ db[p].last_energy_update = resp.at
    /\ db[p].last_passive_income = resp.args.save_data.last_passive_income.t
    /\ db[p].last_passive_income # resp.at

\* C22: the two catch-up routines commute and touch disjoint fields.  On every stored
\* record, at every instant, update_energy then update_passive_income leaves the same
\* store and the same copy as update_passive_income then update_energy; update_energy
\* changes nothing but energy and last_energy_update, update_passive_income nothing but
\* points and last_passive_income, and passive income that is due is paid whatever the
\* energy, at the cap too.
C22_CatchUpCommutes ==
  \A p \in DOMAIN db :
    LET doc == db[p]
        e == update_energy(db, doc, clock)
        ei == update_passive_income(e.db, e.player, clock)
        i == update_passive_income(db, doc, clock)
        ie == update_energy(i.db, i.player, clock)
    IN /\ ei = ie
       /\ \A f \in DOMAIN doc \ {"energy", "last_energy_update"} :
            e.player[f] = doc[f] /\ e.db[p][f] = doc[f]
       /\ \A f \in DOMAIN doc \ {"points", "last_passive_income"} :
            i.player[f] = doc[f] /\ i.db[p][f] = doc[f]
       /\ clock - doc.last_passive_income >= 60
            => /\ BigLess(doc.points, i.db[p].points)
               /\ BigLess(e.db[p].points, ei.db[p].points)

\* a stored record with its energy at the cap, to which both routines have something to do
WitC22 ==
  \E p \in DOMAIN db :
    /\ db[p].energy = MaxEnergyOf(db[p])
    /\ clock - db[p].last_energy_update >= 10
    /\ clock - db[p].last_passive_income >= 60
    /\ update_energy(db, db[p], clock).db[p].last_energy_update = clock
    /\ BigLess(db[p].points, update_passive_income(db, db[p], clock).db[p].points)

\* request r makes its last step, the handler's check and write, in this step
Acts(r) == procs[r].pc = "act" /\ procs'[r].pc = "done" /\ procs'[r].status \in {200, 400}

\* C23: the upgrade-level guard is advisory, not a compare-and-swap.  With the store read
\* and the store write of a request as separate steps, a purchase is decided on the copy
\* the request read: it succeeds exactly when the copy's upgrade_level equals the argument
\* and the copy's points cover the cost, whatever the store holds by then, and it stores
\* the copy's points less the cost.  (WitC23 is the interleaving in which two purchases
\* with the same argument, on points sufficient for one, both report success.)
C23_GuardIsAdvisory ==
  [][\A r \in Procs :
       (Acts(r) /\ procs[r].op = "purchase_upgrade")
         => LET q == procs[r]
                cost == get_upgrade_cost(q.args.upgrade_level)
                passes == /\ q.args.upgrade_level = q.player.upgrade_level
                          /\ BigGeq(q.player.points, Pts(cost))
            IN /\ procs'[r].status = 200 <=> passes
               /\ passes => /\ db'[q.player_id].points = BigSub(q.player.points, cost * PointUnit)
                            /\ db'[q.player_id].upgrade_level = q.player.upgrade_level + 1
               /\ ~passes => db' = db]_vars

\* the double spend: two purchases of upgrade 0 for the same player, both answered with
\* success, on a store that held points for one of them when each arrived
WitC23 ==
  /\ \A r \in Procs :
       /\ procs[r].pc = "done" /\ procs[r].status = 200
       /\ procs[r].op = "purchase_upgrade" /\ procs[r].args.upgrade_level = 0
       /\ procs[r].player_id = "p1"
       /\ "p1" \in DOMAIN procs[r].db0
       /\ procs[r].db0["p1"].upgrade_level = 0
       /\ BigLess(procs[r].player.points, Pts(2 * get_upgrade_cost(0)))
  /\ db["p1"].upgrade_level = 1
  /\ BigLess(db["p1"].points, Pts(get_upgrade_cost(0)))

\* the advancement costs of tiers 1..4 in points, as the specification lists them
AdvancementCostOf(c) ==
  CASE c = 1 -> Pts(5000)
    [] c = 2 -> MegaPts(5)
    [] c = 3 -> MegaPts(500)
    [] c = 4 -> MegaPts(50000)

\* C24: can_advance of the get_player view agrees with the advance action.  On every
\* record, get_player answers can_advance = true exactly when advance_character at the same
\* instant passes its checks on that record, and an advance succeeds exactly when the view
\* of the record says can_advance; can_advance is false in tier 5 whatever the points, and
\* in a tier c < 5 it is true exactly when points >= advancement_cost(c).
C24_CanAdvanceAgrees ==
  [][\A p \in Players :
       LET before == CaughtUp(p)
       IN /\ Req("get_player", p)
               => /\ resp'.body.can_advance <=> advance_check(db'[p]) = ""
                  /\ before.character_level = 5 => ~resp'.body.can_advance
                  /\ before.character_level < 5
                       => (resp'.body.can_advance
                             <=> BigGeq(before.points, AdvancementCostOf(before.character_level)))
          /\ Req("advance_character", p)
               => (~Refused(resp') <=> player_view(before).can_advance)]_vars

\* get_player answered can_advance = true for a record whose points equal the cost of its tier
WitC24 ==
  /\ resp.op = "get_player" /\ resp.status = 200
  /\ resp.body.can_advance
  /\ resp.body.character_level < 5
  /\ resp.body.points = AdvancementCostOf(resp.body.character_level)

\* C25: bounded anchor lag.  Right after any request that runs catch-up (any request but
\* import) served at instant now, the stored anchors satisfy now - last_energy_update < 10
\* and now - last_passive_income < 60, the energy being at its cap or not.
C25_BoundedAnchorLag ==
  [][\A p \in Players :
       (nreq' = nreq + 1 /\ resp'.player_id = p /\ resp'.op # "import_save_data")
         => /\ p \in DOMAIN db'
            /\ clock - db'[p].last_energy_update < 10
            /\ clock - db'[p].last_passive_income < 60]_vars

\* a read found the energy at the cap with an anchor a quantum old, and moved the anchor to now
WitC25 ==
  \E p \in DOMAIN db :
    /\ resp.player_id = p /\ EnergyQuiet(resp)
    /\ regen[p].set /\ regen[p].e = MaxEnergyOf(db[p])
    /\ resp.at - regen[p].t >= 10
    /\ db[p].energy = MaxEnergyOf(db[p])
    /\ db[p].last_energy_update = resp.at

\* C26: catch-up never takes anything away.  For every stored record and every instant now,
\* a now earlier than the anchor included (an imported anchor lying in the future), the
\* energy after update_energy is at least the energy before and the points after
\* update_passive_income are at least the points before; with a negative elapsed time
\* neither the value nor the anchor is changed, in the store or in the handler's copy.
C26_CatchUpNeverTakes ==
  \A p \in DOMAIN db : \A now \in Instants :
    LET player == db[p]
        e == update_energy(db, player, now)
        i == update_passive_income(db, player, now)
        both == update_passive_income(e.db, e.player, now)
    IN /\ e.player.energy >= player.energy /\ e.db[p].energy >= player.energy
       /\ BigGeq(i.player.points, player.points) /\ BigGeq(i.db[p].points, player.points)
       /\ both.db[p].energy >= player.energy /\ BigGeq(both.db[p].points, player.points)
       /\ now < player.last_energy_update => e.db = db /\ e.player = player
       /\ now < player.last_passive_income => i.db = db /\ i.player = player

\* a read was served to a player whose imported anchors lie after the instant of the read
WitC26 ==
  \E p \in DOMAIN db :
    /\ resp.op = "get_player" /\ resp.player_id = p /\ ~Refused(resp)
    /\ db[p].last_energy_update > resp.at
    /\ db[p].last_passive_income > resp.at
    /\ db[p].energy < MaxEnergyOf(db[p])
    /\ resp.body.energy = db[p].energy

\* C27: non-negativity survives concurrency.  Under every interleaving of the store calls
\* of concurrent requests for the same player, each call one atomic step and each write
\* storing absolute values computed from the request's own earlier read, every stored
\* record has points >= 0 and energy >= 0; updates can be lost, no value goes negative.
C27_NonNegativeStore ==
  \A p \in DOMAIN db :
    /\ db[p].energy >= 0
    /\ BigGeq(db[p].points, Zero)

\* two clicks that read the same energy were both answered 200 and the store holds the
\* energy of one click only: an update was lost
WitC27 ==
  /\ \A r \in Procs :
       /\ procs[r].pc = "done" /\ procs[r].status = 200
       /\ procs[r].op = "click" /\ procs[r].player_id = "p1"
  /\ procs["r1"].player.energy = procs["r2"].player.energy
  /\ "p1" \in DOMAIN db
  /\ db["p1"].energy = procs["r1"].player.energy - 2
  /\ db["p1"].energy >= 0

====
